---------------------------- MODULE Spec2Model ----------------------------
(***************************************************************************)
(* The DEFLATE Decoder of src/src/non_blocking/deflate/decode.rs as a      *)
(* state machine.                                                          *)
(*                                                                         *)
(* The Decoder owns a bit reader over a byte source, the output buffer     *)
(* (history and pending-delivery queue at once), the delivered offset and  *)
(* the eos flag.  One call of Read::read is a run of steps from pc =       *)
(* "idle" back to pc = "idle"; the self-recursion of read is the return to *)
(* pc = "read".                                                            *)
(*                                                                         *)
(* The byte source, the bit reader, the Huffman codecs and util::ptr_copy  *)
(* are not part of the source file.  The decoder never peeks or seeks, so  *)
(* what a stream holds at a position is chosen when the decoder reads that *)
(* position: every read of the source is a choice of the environment       *)
(* (a value, or a failure).  Byte values are never inspected by the        *)
(* decoder; the source hands out the byte 65 + n at stream position n so   *)
(* that loss, duplication and reordering are all visible.                  *)
(***************************************************************************)
EXTENDS Integers, Sequences, FiniteSets, TLC

\* ------------------------------------------------------------------ bounds

\* lz77::MAX_DISTANCE is 32768; the model scales it down so that a buffer
\* longer than 4 * MAX_DISTANCE is reachable.
MAX_DISTANCE == 3

\* The length of a stream: its block headers and its symbols other than
\* EndOfBlock, together.
MaxItems == 4

\* The smaller of the two non-empty caller buffers.
SmallBuf == 3

\* Failed read calls after which the caller calls read no more.
MaxFails == 1

\* ------------------------------------------------------------- the inputs


\* The length of a stored block that alone fills the buffer to the truncation
\* threshold: the header after it finds 4 * MAX_DISTANCE bytes and truncates
\* nothing, and the header after any further byte truncates.
LongLen == 4 * MAX_DISTANCE

\* The caller's buffers: empty, smaller than most blocks' output, and one
\* that holds all a block of LongLen bytes yields.
BufSizes == {0, SmallBuf, LongLen}

\* LEN and NLEN as the two little-endian bytes the source holds: 0, 5, LongLen
\* and 256, and the complements of the first three, and 5.
LenBytes == {<<0, 0>>, <<5, 0>>, <<LongLen, 0>>, <<0, 1>>}
NLenBytes == {<<255, 255>>, <<250, 255>>, <<255 - LongLen, 255>>, <<5, 0>>}

\* How many bytes a failing read_exact may have filled of n.
PartialFills(n) == {k \in {0, n - 1} : 0 <= k /\ k < n}

\* What a byte of reserved but never written memory may hold.
UninitBytes == {0, 255}

\* The byte the source holds for stream position n (0-based).
SrcByte(n) == 65 + n

Lit(b) == [t |-> "Literal", b |-> b, length |-> 0, distance |-> 0]
Share(l, d) == [t |-> "Share", b |-> 0, length |-> l, distance |-> d]
EndOfBlock == [t |-> "EndOfBlock", b |-> 0, length |-> 0, distance |-> 0]

\* The Share symbols the source holds: an overlapping copy at distance 1, the
\* overlapping copy of length 4 at distance 2, and a copy that does not overlap.
ShareSyms == {Share(3, 1), Share(4, 2), Share(3, MAX_DISTANCE)}

\* What read returns: Ok(n), or an io::Error of a kind (InvalidData for the
\* format's errors, Io for the source's) raised at one place of the code.
Ok(n) == [kind |-> "Ok", n |-> n, err |-> "none", at |-> "none"]
Err(e, at) == [kind |-> "Err", n |-> 0, err |-> e, at |-> at]
NoRet == [kind |-> "none", n |-> 0, err |-> "none", at |-> "none"]

\* What one read call has consumed from the source: header bits, bytes read
\* past the bit reader, symbols, block headers; the last header and the last
\* LEN and NLEN it read; and how many bytes it has appended to the buffer.
NoRead ==
    [bits |-> 0, bytes |-> 0, syms |-> 0, hdrs |-> 0,
     bfinal |-> FALSE, btype |-> 0, len |-> 0, nlen |-> 0, app |-> 0]

Min(a, b) == IF a < b THEN a ELSE b

\* ------------------------------------------------------- pure operations

\* byteorder's read_u16::<LittleEndian> over the two bytes p read from the source.
U16LE(p) == p[1] + 256 * p[2]

\* !len on a u16.
Not16(x) == 65535 - x

\* n bytes of reserved, not yet written memory holding g.
Reserved(n, g) == [i \in 1..n |-> g]

\* The byte-by-byte forward loop of util::ptr_copy: count bytes from position
\* src to position dst (0-based), each read seeing the writes before it.
RECURSIVE ForwardCopy(_, _, _, _)
ForwardCopy(buf, src, dst, count) ==
    IF count = 0 THEN buf
    ELSE ForwardCopy([buf EXCEPT ![dst + 1] = buf[src + 1]], src + 1, dst + 1, count - 1)

\* ptr::copy_nonoverlapping: count bytes from position src to position dst
\* (0-based), all read from the memory as it was before the copy.
CopyNonoverlapping(buf, src, dst, count) ==
    [i \in 1..Len(buf) |->
        IF dst + 1 <= i /\ i <= dst + count THEN buf[src + (i - dst)] ELSE buf[i]]

\* util::ptr_copy(src, dst, count, is_overlapping).
PtrCopy(buf, src, dst, count, is_overlapping) ==
    IF is_overlapping THEN ForwardCopy(buf, src, dst, count)
    ELSE CopyNonoverlapping(buf, src, dst, count)

\* ShareCopy with copy_nonoverlapping used whatever the overlap.
ShareCopyNoOverlap(buf, length, distance, g) ==
    LET old_len == Len(buf)
        start == old_len - distance
    IN PtrCopy(buf \o Reserved(length, g), start, old_len, length, FALSE)

\* ShareCopy with the copy's start one byte late.
ShareCopyStartOff(buf, length, distance, g) ==
    LET old_len == Len(buf)
        start == old_len - distance + 1
    IN PtrCopy(buf \o Reserved(length, g), start, old_len, length, length > distance)

\* ShareCopy dropping all but the last MAX_DISTANCE bytes before it copies.
ShareCopyCompacting(buf, length, distance, g) ==
    LET kept == IF Len(buf) > MAX_DISTANCE
                THEN SubSeq(buf, Len(buf) - MAX_DISTANCE + 1, Len(buf))
                ELSE buf
        old_len == Len(kept)
        start == old_len - distance
    IN PtrCopy(kept \o Reserved(length, g), start, old_len, length, length > distance)

\* The Share arm past its distance check: the buffer grown by length reserved
\* bytes (holding g) and filled from distance bytes behind its old end.
ShareCopy(buf, length, distance, g) ==
    LET old_len == Len(buf)
        start == old_len - distance
    IN PtrCopy(buf \o Reserved(length, g), start, old_len, length, length > distance)

\* LenMismatch without the complement.
LenMismatchPlain(len, nlen) == len # nlen

\* The stored block's header check.
LenMismatch(len, nlen) == Not16(len) # nlen

\* StoredAppend with read_exact writing into buffer[..len].
StoredAppendAtStart(buf, bytes) ==
    LET old_len == Len(buf)
    IN [i \in 1..(old_len + Len(bytes)) |->
           IF i <= Len(bytes) THEN bytes[i] ELSE IF i <= old_len THEN buf[i] ELSE 0]

\* The stored block's buffer once set_len has grown it by Len(bytes) and
\* read_exact has written bytes into buffer[old_len..].
StoredAppend(buf, bytes) ==
    LET old_len == Len(buf)
    IN [i \in 1..(old_len + Len(bytes)) |->
           IF i <= old_len THEN buf[i] ELSE bytes[i - old_len]]

\* BlockArm with the reserved type decoded as a dynamic block.
BlockArmNoReserved(bt) ==
    CASE bt = 0 -> "stored"
      [] bt = 1 -> "load"
      [] bt = 2 -> "load"
      [] bt = 3 -> "load"

\* The arm of read's match on btype.
BlockArm(bt) ==
    CASE bt = 0 -> "stored"
      [] bt = 1 -> "load"
      [] bt = 2 -> "load"
      [] bt = 3 -> "reserved"

\* TooLongReference rejecting the distance equal to the buffer's length.
TooLongReferenceStrict(buf, distance) == Len(buf) <= distance

\* The Share arm's distance check.
TooLongReference(buf, distance) == Len(buf) < distance

\* truncate_old_buffer leaving offset as it was.
TruncateKeepsOffset(buf, off) ==
    IF Len(buf) > MAX_DISTANCE * 4
    THEN LET new_len == MAX_DISTANCE
             moved == CopyNonoverlapping(buf, Len(buf) - new_len, 0, new_len)
         IN [buffer |-> SubSeq(moved, 1, new_len), offset |-> off]
    ELSE [buffer |-> buf, offset |-> off]

\* truncate_old_buffer without the copy: the first MAX_DISTANCE bytes stay.
TruncateKeepsHead(buf, off) ==
    IF Len(buf) > MAX_DISTANCE * 4
    THEN LET new_len == MAX_DISTANCE
         IN [buffer |-> SubSeq(buf, 1, new_len), offset |-> new_len]
    ELSE [buffer |-> buf, offset |-> off]

\* truncate_old_buffer running from the length 4 * MAX_DISTANCE on.
TruncateAtThreshold(buf, off) ==
    IF Len(buf) >= MAX_DISTANCE * 4
    THEN LET new_len == MAX_DISTANCE
             moved == CopyNonoverlapping(buf, Len(buf) - new_len, 0, new_len)
         IN [buffer |-> SubSeq(moved, 1, new_len), offset |-> new_len]
    ELSE [buffer |-> buf, offset |-> off]

\* truncate_old_buffer setting offset one past the new length.
TruncateOffsetPastEnd(buf, off) ==
    IF Len(buf) > MAX_DISTANCE * 4
    THEN LET new_len == MAX_DISTANCE
             moved == CopyNonoverlapping(buf, Len(buf) - new_len, 0, new_len)
         IN [buffer |-> SubSeq(moved, 1, new_len), offset |-> new_len + 1]
    ELSE [buffer |-> buf, offset |-> off]

\* truncate_old_buffer keeping one byte less than MAX_DISTANCE.
TruncateKeepsLess(buf, off) ==
    IF Len(buf) > MAX_DISTANCE * 4
    THEN LET new_len == MAX_DISTANCE - 1
             moved == CopyNonoverlapping(buf, Len(buf) - new_len, 0, new_len)
         IN [buffer |-> SubSeq(moved, 1, new_len), offset |-> new_len]
    ELSE [buffer |-> buf, offset |-> off]

\* truncate_old_buffer on (buffer, offset).
TruncateOldBuffer(buf, off) ==
    IF Len(buf) > MAX_DISTANCE * 4
    THEN LET new_len == MAX_DISTANCE
             moved == CopyNonoverlapping(buf, Len(buf) - new_len, 0, new_len)
         IN [buffer |-> SubSeq(moved, 1, new_len), offset |-> new_len]
    ELSE [buffer |-> buf, offset |-> off]

\* SymbolArm with the deferred error looked at only at the end of a block.
SymbolArmCheckAtEnd(s, e) ==
    IF s.t = "EndOfBlock" /\ e # "none" THEN "error" ELSE s.t

\* The symbol loop after decode_unchecked: check_last_error()? returns the
\* deferred error e if there is one, and only then the match on s is reached.
SymbolArm(s, e) ==
    IF e # "none" THEN "error" ELSE s.t

\* The copy arm of read: how many bytes go to the caller, and which.
CopySize(buf, off, n) == Min(n, Len(buf) - off)

\* Copied taking the bytes from the start of the buffer.
CopiedFromStart(buf, off, n) == SubSeq(buf, 1, CopySize(buf, off, n))

\* The bytes the copy arm hands to the caller.
Copied(buf, off, n) == SubSeq(buf, off + 1, off + CopySize(buf, off, n))

\* ReadArm testing eos before the undelivered bytes.
ReadArmEosFirst(buf, off, e) ==
    IF e THEN "eos" ELSE IF off < Len(buf) THEN "copy" ELSE "block"

\* ReadArm without the eos arm.
ReadArmNoEos(buf, off, e) ==
    IF off < Len(buf) THEN "copy" ELSE "block"

\* ReadArm with an eos arm that never returns.
ReadArmEosSpins(buf, off, e) ==
    IF off < Len(buf) THEN "copy" ELSE IF e THEN "spin" ELSE "block"

\* ReadArm taking the eos arm only when the buffer holds bytes.
ReadArmEosWhenEmpty(buf, off, e) ==
    IF off < Len(buf) THEN "copy" ELSE IF e /\ Len(buf) > 0 THEN "eos" ELSE "block"

\* ReadArm reading a header whenever eos is false, undelivered bytes or not.
ReadArmBlockFirst(buf, off, e) ==
    IF ~e THEN "block" ELSE IF off < Len(buf) THEN "copy" ELSE "eos"

\* The arm read takes on entry.
ReadArm(buf, off, e) ==
    IF off < Len(buf) THEN "copy" ELSE IF e THEN "eos" ELSE "block"

\* ------------------------------------------------ the format's own meaning

\* RFC 1951's meaning of a length/distance pair over the output so far.
RECURSIVE Expand(_, _, _)
Expand(o, length, distance) ==
    IF length = 0 THEN o
    ELSE Expand(Append(o, o[Len(o) + 1 - distance]), length - 1, distance)

\* The n bytes the source holds from stream position p on.
SrcBytes(p, n) == [i \in 1..n |-> SrcByte(p + i - 1)]

VARIABLES
    \* the Decoder
    buffer,      \* Decoder.buffer
    offset,      \* Decoder.offset
    eos,         \* Decoder.eos
    last_error,  \* the bit reader's deferred error slot
    \* the read call in progress
    pc,          \* where it stands: "idle" between calls
    cap,         \* buf.len() of the call
    btype,       \* the block type read from the header
    sym,         \* the symbol decode_unchecked returned
    \* what the caller sees
    ret,         \* what the last read call returned (none while one runs)
    out,         \* every byte copied into a caller's buffer so far
    fails,       \* how many read calls returned an error
    \* the source
    rd,          \* what the current read call has consumed from the source
    supplied,    \* block headers and symbols (but EndOfBlock) the source supplied
    final,       \* the bfinal bit of the last header the source supplied
    ended,       \* a block with bfinal = 1 has been consumed to its end
    valid,       \* all the source supplied so far is a valid DEFLATE stream
    orig,        \* what the blocks supplied so far mean (RFC 1951)
    produced,    \* every byte appended to Decoder.buffer, in order
    \* the reference decoder: the same code without truncate_old_buffer
    refBuf, refOff, refOut, agree

dec == <<buffer, offset, eos, last_error>>
call == <<pc, cap, btype, sym>>
seen == <<ret, out, fails>>
source == <<rd, supplied, final, ended, valid, orig, produced>>
ref == <<refBuf, refOff, refOut, agree>>
vars == <<dec, call, seen, source, ref>>

Init ==
    /\ buffer = <<>> /\ offset = 0 /\ eos = FALSE /\ last_error = "none"
    /\ pc = "idle" /\ cap = 0 /\ btype = 0 /\ sym = EndOfBlock
    /\ ret = NoRet /\ out = <<>> /\ fails = 0
    /\ rd = NoRead /\ supplied = 0 /\ final = FALSE
    /\ ended = FALSE /\ valid = TRUE /\ orig = <<>> /\ produced = <<>>
    /\ refBuf = <<>> /\ refOff = 0 /\ refOut = <<>> /\ agree = TRUE

\* read returns r to the caller; the block type and the symbol are its locals.
Return(r) ==
    /\ pc' = "idle"
    /\ ret' = r
    /\ fails' = (IF r.kind = "Err" THEN fails + 1 ELSE fails)
    /\ btype' = 0
    /\ sym' = EndOfBlock

\* The block is decoded to its end: read calls itself.
BlockDone ==
    /\ pc' = "read"
    /\ ended' = (ended \/ final)
    /\ btype' = 0
    /\ sym' = EndOfBlock
    /\ UNCHANGED <<ret, fails>>

\* The bytes a block appends go to the buffer, and to the records of them.
Appended(bytes) ==
    /\ buffer' = buffer \o bytes
    /\ produced' = produced \o bytes
    /\ refBuf' = refBuf \o bytes

\* The bytes a stored block appends, likewise.
Stored(bytes) ==
    /\ buffer' = StoredAppend(buffer, bytes)
    /\ produced' = produced \o bytes
    /\ refBuf' = StoredAppend(refBuf, bytes)

\* ------------------------------------------------------------- the steps

\* The caller calls read with a buffer of c bytes.
Call(c) ==
    /\ pc = "idle"
    /\ fails <= MaxFails
    /\ pc' = "read"
    /\ cap' = c
    /\ rd' = NoRead
    /\ ret' = NoRet
    /\ UNCHANGED <<dec, btype, sym, out, fails, ref>>
    /\ UNCHANGED <<supplied, final, ended, valid, orig, produced>>

\* read, first arm: undelivered bytes remain.
Deliver ==
    /\ pc = "read"
    /\ ReadArm(buffer, offset, eos) = "copy"
    /\ LET copy_size == CopySize(buffer, offset, cap)
       IN /\ out' = out \o Copied(buffer, offset, cap)
          /\ offset' = offset + copy_size
          /\ Return(Ok(copy_size))
          /\ IF ReadArm(refBuf, refOff, eos) = "copy"
             THEN /\ refOut' = refOut \o Copied(refBuf, refOff, cap)
                  /\ refOff' = refOff + CopySize(refBuf, refOff, cap)
                  /\ agree' = (agree /\ CopySize(refBuf, refOff, cap) = copy_size)
             ELSE /\ agree' = FALSE
                  /\ UNCHANGED <<refOut, refOff>>
    /\ UNCHANGED <<buffer, eos, last_error, cap, source, refBuf>>

\* read, second arm: nothing undelivered and the final block's header was read.
ReturnEos ==
    /\ pc = "read"
    /\ ReadArm(buffer, offset, eos) = "eos"
    /\ Return(Ok(0))
    /\ agree' = (agree /\ ReadArm(refBuf, refOff, eos) = "eos")
    /\ UNCHANGED <<dec, cap, out, source, refBuf, refOff, refOut>>

\* read, third arm, to the dispatch on btype: the header's bits, eos = bfinal,
\* truncate_old_buffer, and the reserved type's error.
ReadHeader ==
    /\ pc = "read"
    /\ ReadArm(buffer, offset, eos) = "block"
    /\ agree' = (agree /\ ReadArm(refBuf, refOff, eos) = "block")
    /\ UNCHANGED <<last_error, cap, out, ended, orig, produced>>
    /\ UNCHANGED <<refBuf, refOff, refOut>>
    /\ \/ \* read_bit fails
          /\ Return(Err("Io", "read_bit"))
          /\ valid' = FALSE
          /\ UNCHANGED <<buffer, offset, eos, rd, supplied, final>>
       \/ \* read_bits(2) fails
          /\ Return(Err("Io", "read_bits"))
          /\ valid' = FALSE
          /\ rd' = [rd EXCEPT !.bits = @ + 1]
          /\ UNCHANGED <<buffer, offset, eos, supplied, final>>
       \/ /\ supplied < MaxItems
          /\ \E bfinal \in BOOLEAN, bt \in 0..3 :
                LET t == TruncateOldBuffer(buffer, offset)
                IN /\ eos' = bfinal
                   /\ buffer' = t.buffer
                   /\ offset' = t.offset
                   /\ rd' = [rd EXCEPT !.bits = @ + 3, !.hdrs = @ + 1,
                                        !.bfinal = bfinal, !.btype = bt]
                   /\ supplied' = supplied + 1
                   /\ final' = bfinal
                   /\ IF BlockArm(bt) = "reserved"
                      THEN /\ Return(Err("InvalidData", "btype"))
                           /\ valid' = FALSE
                      ELSE /\ pc' = BlockArm(bt)
                           /\ btype' = bt
                           /\ valid' = (valid /\ bt # 3)
                           /\ UNCHANGED <<sym, ret, fails>>

\* read_non_compressed_block, and read's call of itself after it.
StoredBlock ==
    /\ pc = "stored"
    /\ UNCHANGED <<offset, eos, last_error, cap, out>>
    /\ UNCHANGED <<supplied, final, refOff, refOut, agree>>
    /\ \/ \* reading LEN fails
          /\ Return(Err("Io", "len"))
          /\ valid' = FALSE
          /\ UNCHANGED <<buffer, produced, refBuf, rd, ended, orig>>
       \/ \* reading NLEN fails
          /\ Return(Err("Io", "nlen"))
          /\ valid' = FALSE
          /\ rd' = [rd EXCEPT !.bytes = @ + 2]
          /\ UNCHANGED <<buffer, produced, refBuf, ended, orig>>
       \/ \E lb \in LenBytes, nb \in NLenBytes :
             LET len == U16LE(lb)
                 nlen == U16LE(nb)
                 p == Len(produced)
             IN \/ /\ LenMismatch(len, nlen)
                   /\ Return(Err("InvalidData", "nlen"))
                   /\ valid' = FALSE
                   /\ rd' = [rd EXCEPT !.bytes = @ + 4, !.len = len, !.nlen = nlen]
                   /\ UNCHANGED <<buffer, produced, refBuf, ended, orig>>
                \/ \* read_exact fills the reserved bytes
                   /\ ~LenMismatch(len, nlen)
                   /\ Stored(SrcBytes(p, len))
                   /\ orig' = orig \o SrcBytes(p, len)
                   /\ valid' = (valid /\ nlen = Not16(len))
                   /\ rd' = [rd EXCEPT !.bytes = @ + 4 + len, !.len = len, !.nlen = nlen,
                                        !.app = @ + len]
                   /\ BlockDone
                \/ \* read_exact fails after k bytes: the rest stays as reserved
                   /\ ~LenMismatch(len, nlen)
                   /\ \E k \in PartialFills(len), g \in UninitBytes :
                         /\ Stored(SrcBytes(p, k) \o Reserved(len - k, g))
                         /\ rd' = [rd EXCEPT !.bytes = @ + 4 + k, !.len = len,
                                              !.nlen = nlen, !.app = @ + len]
                   /\ Return(Err("Io", "read_exact"))
                   /\ valid' = FALSE
                   /\ UNCHANGED <<ended, orig>>

\* huffman.load: the fixed codec reads nothing, the dynamic one its tables.
LoadCodec ==
    /\ pc = "load"
    /\ UNCHANGED <<dec, cap, out, ref>>
    /\ UNCHANGED <<rd, supplied, final, ended, orig, produced>>
    /\ \/ /\ pc' = "decode"
          /\ UNCHANGED <<btype, sym, ret, fails, valid>>
       \/ /\ btype = 2
          /\ \E e \in {"InvalidData", "Io"} : Return(Err(e, "load"))
          /\ valid' = FALSE

\* The symbols the source may hold next.
Symbols ==
    IF supplied < MaxItems
    THEN {Lit(SrcByte(Len(produced))), EndOfBlock} \cup ShareSyms
    ELSE {EndOfBlock}

\* symbol_decoder.decode_unchecked: a symbol, and maybe a deferred error.
DecodeSymbol ==
    /\ pc = "decode"
    /\ \E s \in Symbols, e \in {"none", "Io", "InvalidData"} :
          /\ sym' = s
          /\ supplied' = (IF s = EndOfBlock THEN supplied ELSE supplied + 1)
          /\ last_error' = e
          /\ valid' = (valid /\ e = "none")
    /\ pc' = "check"
    /\ rd' = [rd EXCEPT !.syms = @ + 1]
    /\ UNCHANGED <<buffer, offset, eos, cap, btype, seen, ref>>
    /\ UNCHANGED <<final, ended, orig, produced>>

\* check_last_error and the match on the symbol.
ActOnSymbol ==
    /\ pc = "check"
    /\ UNCHANGED <<offset, eos, cap, out, supplied, final>>
    /\ UNCHANGED <<refOff, refOut>>
    /\ \/ /\ SymbolArm(sym, last_error) = "error"
          /\ Return(Err(last_error, "check_last_error"))
          /\ last_error' = "none"
          /\ UNCHANGED <<buffer, produced, refBuf, agree, ended, valid, orig>>
       \/ /\ SymbolArm(sym, last_error) = "Literal"
          /\ Appended(<<sym.b>>)
          /\ orig' = Append(orig, sym.b)
          /\ pc' = "decode"
          /\ UNCHANGED <<last_error, btype, sym, ret, fails, agree, ended, valid>>
       \/ /\ SymbolArm(sym, last_error) = "Share"
          /\ TooLongReference(buffer, sym.distance)
          /\ Return(Err("InvalidData", "distance"))
          /\ agree' = (agree /\ TooLongReference(refBuf, sym.distance))
          /\ valid' = (valid /\ sym.distance <= Len(orig))
          /\ UNCHANGED <<buffer, produced, refBuf, last_error, ended, orig>>
       \/ /\ SymbolArm(sym, last_error) = "Share"
          /\ ~TooLongReference(buffer, sym.distance)
          /\ \E g \in UninitBytes :
                LET b == ShareCopy(buffer, sym.length, sym.distance, g)
                IN /\ buffer' = b
                   /\ produced' = produced \o SubSeq(b, Len(buffer) + 1, Len(b))
                   /\ IF TooLongReference(refBuf, sym.distance)
                      THEN /\ agree' = FALSE
                           /\ UNCHANGED refBuf
                      ELSE /\ refBuf' = ShareCopy(refBuf, sym.length, sym.distance, g)
                           /\ UNCHANGED agree
          /\ IF sym.distance <= Len(orig)
             THEN /\ orig' = Expand(orig, sym.length, sym.distance)
                  /\ UNCHANGED valid
             ELSE /\ valid' = FALSE
                  /\ UNCHANGED orig
          /\ pc' = "decode"
          /\ UNCHANGED <<last_error, btype, sym, ret, fails, ended>>
       \/ /\ SymbolArm(sym, last_error) = "EndOfBlock"
          /\ BlockDone
          /\ UNCHANGED <<buffer, produced, refBuf, last_error, agree, valid, orig>>
    /\ rd' = [rd EXCEPT !.app = @ + Len(buffer') - Len(buffer)]

Next ==
    \/ \E c \in BufSizes : Call(c)
    \/ Deliver
    \/ ReturnEos
    \/ ReadHeader
    \/ StoredBlock
    \/ LoadCodec
    \/ DecodeSymbol
    \/ ActOnSymbol

Spec == Init /\ [][Next]_vars

\* The steps of a read call in progress.
Step ==
    \/ Deliver
    \/ ReturnEos
    \/ ReadHeader
    \/ StoredBlock
    \/ LoadCodec
    \/ DecodeSymbol
    \/ ActOnSymbol

\* A read call in progress runs on: it is sequential code and every read of
\* the source returns (a value or an error).  The caller may stop calling.
FairSpec == Spec /\ WF_vars(Step)

\* ------------------------------------------------------------ the claims

IsPrefix(a, b) == Len(a) <= Len(b) /\ a = SubSeq(b, 1, Len(a))

\* The bytes of the buffer not yet delivered.
Undelivered(buf, off) == SubSeq(buf, off + 1, Len(buf))

\* A read call with a non-empty buffer has just returned Ok(0).
EosReported == pc = "idle" /\ ret = Ok(0) /\ cap > 0

\* truncate_old_buffer has dropped bytes of the history.
Truncated == Len(buffer) < Len(produced)

\* C1: while no read call has failed, the bytes the calls returned, in order,
\* are a prefix of the bytes appended to the buffer, and are all of them once
\* a call with a non-empty buffer has returned Ok(0).
C1_DeliveredInOrder ==
    fails = 0 =>
        /\ IsPrefix(out, produced)
        /\ Len(out) + (Len(buffer) - offset) = Len(produced)
        /\ EosReported => out = produced

\* C1's case: all bytes delivered, some of them after a truncation.
C1_Witness ==
    /\ fails = 0
    /\ EosReported
    /\ Truncated
    /\ Len(out) > LongLen

\* C2: the bytes read from a valid stream are a prefix of the bytes it
\* encodes, no read call fails, and when a call with a non-empty buffer
\* returns Ok(0) the final block has been consumed to its end and the bytes
\* read are exactly the bytes the stream encodes.
C2_RoundTrip ==
    valid =>
        /\ fails = 0
        /\ IsPrefix(out, orig)
        /\ EosReported => (ended /\ out = orig)

\* C2's case: a stream read to its end whose bytes past the fifth hold a copy
\* made by a back-reference.
C2_Witness ==
    /\ valid
    /\ EosReported
    /\ out = orig
    /\ \E i \in 1..Len(orig) : i > 5 /\ orig[i] < SrcByte(i - 1)

\* C3: the decoder and the reference decoder that never truncates take the
\* same arms, return the same results and deliver the same bytes; they hold
\* the same undelivered bytes, and every byte appended to the buffer is the
\* byte appended to the full history.
C3_WindowingTransparent ==
    /\ agree
    /\ out = refOut
    /\ produced = refBuf
    /\ Undelivered(buffer, offset) = Undelivered(refBuf, refOff)

\* C3's case: a Share resolved after a truncation.
C3_Witness ==
    /\ Truncated
    /\ pc = "decode"
    /\ sym.t = "Share"
    /\ Len(buffer) > MAX_DISTANCE

\* C4 as stated: a read call with a non-empty buffer returns Ok(0) only when
\* a block with bfinal = 1 has been decoded to its end and every byte of the
\* buffer has been delivered.
C4_ZeroOnlyAtEnd ==
    EosReported => (final /\ ended /\ offset = Len(buffer))

\* C4, amended: a read call with a non-empty buffer returns Ok(0) only when
\* the header of a block with bfinal = 1 has been read and every byte of the
\* buffer has been delivered; and unless an earlier call failed, that block
\* has been decoded to its end.
C4_ZeroOnlyAtEndUnlessFailed ==
    EosReported =>
        /\ final
        /\ eos
        /\ offset = Len(buffer)
        /\ fails = 0 => ended

\* C4's case: one call reads the header of a block that is not final and
\* yields no byte, then the header of the final block, and returns Ok(0).
C4_Witness ==
    /\ EosReported
    /\ fails = 0
    /\ rd.hdrs = 2
    /\ ended

\* The final block has been decoded to its end and all bytes are delivered.
EndState == ended /\ offset = Len(buffer)

\* C5: from the end state on, a read call reads nothing from the source,
\* returns Ok(0) and leaves buffer, offset and eos as they are.
C5_EosIdempotent ==
    [][/\ EndState =>
            /\ EndState'
            /\ UNCHANGED <<buffer, offset, eos, supplied>>
       /\ (EndState /\ pc = "idle") => (pc' = "read" /\ rd' = NoRead)
       /\ (EndState /\ pc = "read" /\ rd = NoRead) =>
            (pc' = "idle" /\ ret' = Ok(0) /\ rd' = NoRead)]_vars

\* C5's case: a read call made in the end state has returned.
C5_Witness ==
    /\ EndState
    /\ pc = "idle"
    /\ ret = Ok(0)
    /\ rd = NoRead
    /\ cap > 0
    /\ Len(out) > 0

\* The stored block's step has read both LEN and NLEN.
StoredHeaderRead == pc = "stored" /\ rd'.bytes >= rd.bytes + 4

\* C6: a stored block whose NLEN is the complement of its LEN grows the
\* buffer by exactly LEN bytes and leaves the bytes before them; when the
\* source holds the payload, these are the source's next LEN bytes, 4 + LEN
\* bytes are consumed and the block is done.
C6_StoredBlock ==
    [][(StoredHeaderRead /\ rd'.nlen = Not16(rd'.len)) =>
          /\ Len(buffer') = Len(buffer) + rd'.len
          /\ SubSeq(buffer', 1, Len(buffer)) = buffer
          /\ \/ pc' = "read"
             \/ pc' = "idle" /\ ret' = Err("Io", "read_exact")
          /\ pc' = "read" =>
                /\ buffer' = buffer \o SrcBytes(Len(produced), rd'.len)
                /\ rd'.bytes = rd.bytes + 4 + rd'.len]_vars

\* C6's case: LEN = 0005, NLEN = FFFA and five bytes of payload.
C6_Witness ==
    /\ pc = "read"
    /\ rd.len = 5
    /\ rd.nlen = 65530
    /\ rd.bytes = 9
    /\ buffer = <<65, 66, 67, 68, 69>>

\* C7: a stored block whose NLEN is not the complement of its LEN fails with
\* InvalidData when the four header bytes are read and no more, and leaves
\* the buffer as it was.
C7_StoredBlockBadNlen ==
    [][(StoredHeaderRead /\ rd'.nlen # Not16(rd'.len)) =>
          /\ pc' = "idle"
          /\ ret' = Err("InvalidData", "nlen")
          /\ rd'.bytes = rd.bytes + 4
          /\ buffer' = buffer]_vars

\* C7's case: LEN = 0005, NLEN = 0005.
C7_Witness ==
    /\ pc = "idle"
    /\ ret = Err("InvalidData", "nlen")
    /\ rd.len = 5
    /\ rd.nlen = 5

\* The symbol in hand is a Share, decoded without error.
ShareInHand == pc = "check" /\ last_error = "none" /\ sym.t = "Share"

\* C8: a Share whose distance is at most the buffer's length n is resolved:
\* the buffer grows by length bytes, byte n + i is byte n - distance + i of
\* the resulting buffer, and the first n bytes stay.
C8_ShareCopy ==
    [][(ShareInHand /\ sym.distance <= Len(buffer)) =>
          LET n == Len(buffer)
          IN /\ pc' = "decode"
             /\ Len(buffer') = n + sym.length
             /\ \A i \in 0..(sym.length - 1) :
                   buffer'[n + i + 1] = buffer'[n - sym.distance + i + 1]
             /\ SubSeq(buffer', 1, n) = buffer]_vars

\* C8's case: Literal A, Literal B, Share{length 4, distance 2} gives A B A B A B.
C8_Witness ==
    /\ pc = "decode"
    /\ sym = Share(4, 2)
    /\ buffer = <<65, 66, 65, 66, 65, 66>>

\* C9: a Share is rejected with InvalidData exactly when its distance exceeds
\* the number of bytes appended to the buffer so far, whatever has been
\* truncated; a rejected Share leaves the buffer as it was, and a resolved one
\* starts its copy inside the buffer.
C9_ShareRejected ==
    [][ShareInHand =>
          LET rejected == pc' = "idle" /\ ret' = Err("InvalidData", "distance")
          IN /\ rejected <=> sym.distance > Len(produced)
             /\ valid => (rejected <=> sym.distance > Len(orig))
             /\ rejected => buffer' = buffer
             /\ ~rejected => (pc' = "decode" /\ Len(buffer) - sym.distance >= 0)]_vars

\* C9's case: a Share as the first symbol of the stream is rejected.
C9_Witness ==
    /\ pc = "idle"
    /\ ret = Err("InvalidData", "distance")
    /\ produced = <<>>
    /\ rd.hdrs = 1
    /\ rd.syms = 1

\* C10: a header with btype = 11 fails the call with InvalidData when its
\* three bits are read: nothing more is consumed and nothing is appended.
C10_ReservedType ==
    [][(pc = "read" /\ rd'.hdrs = rd.hdrs + 1 /\ rd'.btype = 3) =>
          /\ pc' = "idle"
          /\ ret' = Err("InvalidData", "btype")
          /\ rd'.bits = rd.bits + 3
          /\ rd'.bytes = rd.bytes
          /\ rd'.syms = rd.syms
          /\ produced' = produced
          /\ Len(buffer') <= Len(buffer)]_vars

\* C10's case: the reserved type in a header with bfinal = 1.
C10_Witness ==
    /\ pc = "idle"
    /\ ret = Err("InvalidData", "btype")
    /\ rd.btype = 3
    /\ rd.bfinal

\* A step of read that reads a block header.
HeaderRead == pc = "read" /\ rd'.hdrs = rd.hdrs + 1

\* C11 as stated: between its entry and its return a read call reads at most
\* one block header.
C11_OneHeaderPerCall == rd.hdrs <= 1

\* C11, amended: a read call reads a further block header only while it has
\* appended no byte to the buffer; once a block that appended bytes is at its
\* end, the call returns through the copy arm with min(buf.len(), bytes
\* appended) bytes.
C11_OneYieldingBlockPerCall ==
    [][/\ (HeaderRead /\ rd.hdrs >= 1) => rd.app = 0
       /\ (pc = "read" /\ rd.app > 0) =>
             (pc' = "idle" /\ ret' = Ok(Min(cap, rd.app)))]_vars

\* C11's case: a call that read two headers, the first of a block that
\* yielded nothing, and returned bytes of the second.
C11_Witness ==
    /\ pc = "idle"
    /\ rd.hdrs = 2
    /\ rd.app > 0
    /\ ret.kind = "Ok"
    /\ ret.n > 0

\* A step of read that reads the source, or fails trying to.
SourceRead == pc # "idle" /\ (rd' # rd \/ ret'.kind = "Err")

\* C12: eos is the bfinal bit of the last header read and, once true, stays
\* true; the source is read only by a call that took the header arm, with eos
\* false and nothing undelivered; a call that starts with eos true reads
\* nothing and returns.
C12_FinalEndsStream ==
    [][/\ eos = final
       /\ eos => eos'
       /\ HeaderRead => (~eos /\ offset = Len(buffer) /\ eos' = rd'.bfinal)
       /\ (SourceRead /\ pc = "read") => (~eos /\ offset = Len(buffer))
       /\ (SourceRead /\ pc # "read") => rd.hdrs >= 1
       /\ (pc = "read" /\ rd.hdrs = 0 /\ eos) =>
             (pc' = "idle" /\ ret'.kind = "Ok" /\ rd' = NoRead
              /\ supplied' = supplied)]_vars

\* C12's case: after a final block that failed part way, and after the bytes
\* it had appended were delivered, a call has returned without reading.
C12_Witness ==
    /\ pc = "idle"
    /\ eos
    /\ ~ended
    /\ fails = 1
    /\ ret = Ok(0)
    /\ cap > 0
    /\ rd = NoRead
    /\ Len(out) > 0

\* The source's bytes and the literals are SrcByte values, none of them a
\* value of UninitBytes: a byte with such a value is a byte of reserved memory
\* that was never written, or a copy of one.
Unfilled(b) == b \in UninitBytes

\* C13 as stated: no byte copied into a caller's buffer is a byte of reserved
\* space that was never filled, also in calls made after a failed call.
C13_OnlyWrittenBytesDelivered ==
    \A i \in 1..Len(out) : ~Unfilled(out[i])

\* C13's case: a stored block's read_exact failed part way, and the next call
\* returned the block's bytes, the unfilled last one among them.
C13_Witness ==
    /\ pc = "idle"
    /\ fails = 1
    /\ ret.kind = "Ok"
    /\ ret.n > 1
    /\ out # <<>>
    /\ Unfilled(out[Len(out)])
    /\ ~Unfilled(out[1])

\* The last n elements of s.
LastN(s, n) == SubSeq(s, Len(s) - n + 1, Len(s))

\* C14: with T the number of bytes appended to the buffer so far, the buffer
\* holds at least min(T, MAX_DISTANCE) bytes and its last min(T, MAX_DISTANCE)
\* bytes are the last bytes appended, in order; while no call has failed,
\* these are all bytes a block wrote.
C14_TrailingHistory ==
    LET m == Min(Len(produced), MAX_DISTANCE)
    IN /\ Len(buffer) >= m
       /\ LastN(buffer, m) = LastN(produced, m)
       /\ fails = 0 => \A i \in 1..Len(produced) : ~Unfilled(produced[i])

\* C14's case: in the middle of the block that follows a truncation, with
\* bytes appended after it.
C14_Witness ==
    /\ Truncated
    /\ pc = "check"
    /\ fails = 0
    /\ Len(buffer) > MAX_DISTANCE
    /\ Len(produced) > LongLen + 1

\* C15: the buffer is shortened only by the step that reads a block header,
\* before anything of the block is decoded; every other step, and so every
\* step of a block's decoding, leaves the bytes of the buffer where and what
\* they are and at most appends to them.
C15_CompactionAtBlockStart ==
    [][/\ Len(buffer') < Len(buffer) => (HeaderRead /\ rd'.app = rd.app)
       /\ ~HeaderRead => IsPrefix(buffer, buffer')
       /\ pc \in {"stored", "load", "decode", "check"} =>
             (Len(buffer') >= Len(buffer) /\ IsPrefix(buffer, buffer'))]_vars

\* C15's case: a block being decoded after the truncation at its start has
\* appended bytes behind the MAX_DISTANCE bytes kept.
C15_Witness ==
    /\ Truncated
    /\ pc = "decode"
    /\ rd.hdrs = 1
    /\ rd.app > 1
    /\ Len(buffer) = MAX_DISTANCE + rd.app

\* C16: the step that reads a block header finds offset at the buffer's
\* length L; if L > 4 * MAX_DISTANCE it leaves the last MAX_DISTANCE bytes of
\* the buffer, in order, and offset = MAX_DISTANCE; otherwise it leaves buffer
\* and offset as they are; either way as many bytes are undelivered after it
\* as before, namely none.
C16_Compaction ==
    [][HeaderRead =>
          LET L == Len(buffer)
          IN /\ offset = L
             /\ L > 4 * MAX_DISTANCE =>
                   /\ buffer' = LastN(buffer, MAX_DISTANCE)
                   /\ offset' = MAX_DISTANCE
                   /\ offset' = Len(buffer')
             /\ L <= 4 * MAX_DISTANCE => (buffer' = buffer /\ offset' = offset)
             /\ Len(buffer') - offset' = L - offset
             /\ Len(out) = Len(produced)]_vars

\* C16's case: a header read with more than 4 * MAX_DISTANCE bytes in the
\* buffer has left MAX_DISTANCE of them.
C16_Witness ==
    /\ pc \in {"stored", "load"}
    /\ rd.hdrs = 1
    /\ Truncated
    /\ Len(buffer) = MAX_DISTANCE
    /\ offset = MAX_DISTANCE

\* C17: every decode_unchecked is followed by the check of the deferred
\* error, and an error is pending nowhere else; when one is pending the call
\* returns it, and the symbol decoded with it appends nothing to the buffer
\* and does not end the block.
C17_ErrorCheckedBeforeSymbol ==
    [][/\ last_error # "none" => pc = "check"
       /\ pc = "decode" => (pc' = "check" /\ rd'.syms = rd.syms + 1
                            /\ buffer' = buffer)
       /\ (pc = "check" /\ last_error # "none") =>
             /\ pc' = "idle"
             /\ ret' = Err(last_error, "check_last_error")
             /\ last_error' = "none"
             /\ buffer' = buffer
             /\ produced' = produced
             /\ ended' = ended]_vars

\* C17's case: the second symbol of a block was decoded with an error
\* pending; the call failed and the buffer holds the first symbol's byte only.
C17_Witness ==
    /\ pc = "idle"
    /\ ret.at = "check_last_error"
    /\ rd.syms = 2
    /\ rd.app = 1
    /\ Len(buffer) = 1

\* C18: with undelivered bytes, read copies buffer[offset .. offset + n) for
\* n = min(buf.len(), buffer length - offset) to the caller, returns Ok(n)
\* and advances offset by n; it reads nothing from the source and leaves the
\* buffer, eos and all else of the decoder as they are.
C18_CopyArmFrame ==
    [][(pc = "read" /\ offset < Len(buffer)) =>
          LET n == Min(cap, Len(buffer) - offset)
          IN /\ pc' = "idle"
             /\ ret' = Ok(n)
             /\ out' = out \o SubSeq(buffer, offset + 1, offset + n)
             /\ offset' = offset + n
             /\ UNCHANGED <<buffer, eos, last_error>>
             /\ UNCHANGED <<rd, supplied, produced, fails>>]_vars

\* C18's case: a call that found undelivered bytes behind delivered ones
\* returned SmallBuf of them and left some.
C18_Witness ==
    /\ pc = "idle"
    /\ ret = Ok(SmallBuf)
    /\ rd = NoRead
    /\ offset > SmallBuf
    /\ offset < Len(buffer)

\* C19: offset is never negative and never past the end of the buffer,
\* between calls and at every step of a call, whether calls have failed or not.
C19_OffsetInBuffer ==
    /\ 0 <= offset
    /\ offset <= Len(buffer)

\* C19's case: after a failed call, inside the block that follows a
\* truncation, with a byte appended behind offset.
C19_Witness ==
    /\ fails = 1
    /\ Truncated
    /\ pc = "decode"
    /\ offset = MAX_DISTANCE
    /\ offset < Len(buffer)

\* C20: every read call returns; and each header the call reads, its first
\* and those its recursion reads, takes three bits of the source, which
\* holds one header less afterwards.
C20_CallReturns ==
    /\ (pc # "idle") ~> (pc = "idle")
    /\ [][HeaderRead => (rd'.bits = rd.bits + 3 /\ supplied' = supplied + 1)]_vars

\* C20's case: a call that read three headers, two of them by recursion,
\* has returned.
C20_Witness ==
    /\ pc = "idle"
    /\ rd.hdrs = 3
    /\ rd.bits = 9
    /\ ret.kind = "Ok"

=============================================================================
